---- MODULE Spec2Model ----
(***************************************************************************)
(* A model of rss_daily_pipeline.py: feed parsing into canonical items,    *)
(* uid computation, the seen / articles / feeds tables, layered metadata   *)
(* extraction and the per-feed report files written by run_pipeline.       *)
(*                                                                         *)
(* Text is modelled as a sequence of one-character strings, so that the    *)
(* string operations of the source (strip, lower, regular expressions,     *)
(* concatenation of prefixes) are computed and not assumed.  Python's None *)
(* is the one-element sequence None, whose element is no character.        *)
(***************************************************************************)
EXTENDS Integers, Sequences, FiniteSets, TLC

(***************************************************************************)
(* Text helpers                                                            *)
(***************************************************************************)
None == <<"<None>">>

\* Python truthiness of an Optional[str]: None and "" are falsy.
Truthy(s) == s # None /\ s # <<>>

\* `a or b` on Optional[str] values.
Or(a, b) == IF Truthy(a) THEN a ELSE b

\* The characters the regular expression \s matches (those of the alphabet).
WS == {" ", "\n"}

Digits == {"0", "1", "2", "3", "4", "5", "6", "7", "8", "9"}

Lowers == <<"a", "b", "c", "d", "e", "f", "g", "h", "i", "j", "k", "l", "m",
            "n", "o", "p", "q", "r", "s", "t", "u", "v", "w", "x", "y", "z">>

Uppers == <<"A", "B", "C", "D", "E", "F", "G", "H", "I", "J", "K", "L", "M",
            "N", "O", "P", "Q", "R", "S", "T", "U", "V", "W", "X", "Y", "Z">>

Range(f) == {f[i] : i \in DOMAIN f}

\* The characters the regular expression \w matches.
WordChars == Digits \cup Range(Lowers) \cup Range(Uppers) \cup {"_"}

RECURSIVE LStrip(_, _)
LStrip(s, chars) ==
    IF s = <<>> THEN s
    ELSE IF Head(s) \in chars THEN LStrip(Tail(s), chars) ELSE s

RECURSIVE RStrip(_, _)
RStrip(s, chars) ==
    IF s = <<>> THEN s
    ELSE IF s[Len(s)] \in chars THEN RStrip(SubSeq(s, 1, Len(s) - 1), chars) ELSE s

\* str.strip(chars)
Strip(s, chars) == RStrip(LStrip(s, chars), chars)

LowerChar(c) ==
    IF c \in Range(Uppers)
    THEN Lowers[CHOOSE i \in DOMAIN Uppers : Uppers[i] = c]
    ELSE c

\* str.lower()
Lower(s) == [i \in DOMAIN s |-> LowerChar(s[i])]

\* re.sub(r'\s+', ' ', s): every maximal run of whitespace becomes one space.
RECURSIVE CollapseWS(_)
CollapseWS(s) ==
    IF s = <<>> THEN s
    ELSE IF Head(s) \in WS
         THEN <<" ">> \o CollapseWS(LStrip(s, WS))
         ELSE <<Head(s)>> \o CollapseWS(Tail(s))

\* clean_text: html.unescape, whitespace collapse, strip.  No text of the
\* model holds '&', so html.unescape leaves every text of the model as it is.
clean_text(s) ==
    IF s = None THEN None ELSE Strip(CollapseWS(s), {" "})

\* Length of the longest prefix of s whose characters are all in chars.
RECURSIVE RunLen(_, _)
RunLen(s, chars) ==
    IF s = <<>> \/ Head(s) \notin chars THEN 0 ELSE 1 + RunLen(Tail(s), chars)

\* s[i:] as Python writes it, for a 1-based i.
From(s, i) == SubSeq(s, i, Len(s))

StartsWith(s, p) == Len(s) >= Len(p) /\ SubSeq(s, 1, Len(p)) = p

(***************************************************************************)
(* sha256(text)[:16].  The digest is a free constructor over its input     *)
(* (no two texts of the model collide); its element "#sha256" is no        *)
(* character, so a digest is never mistaken for other text.                *)
(***************************************************************************)
sha256_16(text) == <<"#sha256">> \o text

(***************************************************************************)
(* Feed parsing                                                            *)
(***************************************************************************)
\* xml_text(node): node.text.strip() if the node exists and has text.  A raw
\* text of None is a missing element, <<>> an element without text.
xml_text(raw) == IF Truthy(raw) THEN Strip(raw, WS) ELSE None

\* The characters [^\s<>"'] excludes.
DoiStop == WS \cup {"<", ">", "\"", "'"}

RECURSIVE RunLenNot(_, _)
RunLenNot(s, chars) ==
    IF s = <<>> \/ Head(s) \in chars THEN 0 ELSE 1 + RunLenNot(Tail(s), chars)

DoiMinDigits == 4
DoiMaxDigits == 9

\* Number of digits of a match of \b(10\.\d{4,9}/[^\s<>"']+) starting at s[i].
DoiDigitsAt(s, i) == RunLen(From(s, i + 3), Digits)

\* Whether \b(10\.\d{4,9}/[^\s<>"']+) matches at s[i].
DoiMatchAt(s, i) ==
    /\ i = 1 \/ s[i - 1] \notin WordChars
    /\ StartsWith(From(s, i), <<"1", "0", ".">>)
    /\ LET k == DoiDigitsAt(s, i) IN
         /\ k >= DoiMinDigits
         /\ k <= DoiMaxDigits
         /\ i + 3 + k <= Len(s)
         /\ s[i + 3 + k] = "/"
         /\ RunLenNot(From(s, i + 4 + k), DoiStop) >= 1

\* m.group(1) of the match at s[i].
DoiGroupAt(s, i) ==
    LET k == DoiDigitsAt(s, i)
        m == RunLenNot(From(s, i + 4 + k), DoiStop)
    IN  SubSeq(s, i, i + 3 + k + m)

\* re.search(...) on one candidate, then rstrip(').,;'); None without a match.
DoiSearch(s) ==
    LET hits == {i \in 1..Len(s) : DoiMatchAt(s, i)} IN
    IF hits = {} THEN None
    ELSE LET i == CHOOSE j \in hits : \A h \in hits : j <= h
         IN  RStrip(DoiGroupAt(s, i), {")", ".", ",", ";"})

\* guess_doi(*candidates): the first candidate that is truthy and matches.
RECURSIVE guess_doi(_)
guess_doi(candidates) ==
    IF candidates = <<>> THEN None
    ELSE LET s == Head(candidates) IN
         IF Truthy(s) /\ DoiSearch(s) # None THEN DoiSearch(s)
         ELSE guess_doi(Tail(candidates))

\* add_item: the canonical item appended to the list.
add_item(d) ==
    [title    |-> clean_text(d.title),
     link     |-> d.link,
     id_like  |-> d.id_like,
     pub_date |-> clean_text(d.pub_date),
     doi      |-> clean_text(d.doi),
     journal  |-> clean_text(d.journal)]

\* One rss:item of an RSS 1.0 / RDF feed.
ParseRdfItem(item) ==
    LET title == Or(xml_text(item.rss_title), xml_text(item.dc_title))
        link == xml_text(item.rss_link)
        about == item.about
        dc_date == xml_text(item.dc_date)
        prism_doi == xml_text(item.prism_doi)
        prism_publicationName == xml_text(item.prism_publicationName)
        dc_identifier == xml_text(item.dc_identifier)
    IN  add_item([title    |-> title,
                  link     |-> link,
                  id_like  |-> Or(Or(about, dc_identifier), link),
                  pub_date |-> dc_date,
                  doi      |-> Or(prism_doi, guess_doi(<<dc_identifier, link>>)),
                  journal  |-> prism_publicationName])

\* One item of an RSS 2.0 channel.
ParseRss2Item(item) ==
    LET title == Or(xml_text(item.title), xml_text(item.dc_title))
        link == xml_text(item.link)
        guid == xml_text(item.guid)
        pubDate == Or(xml_text(item.pubDate), xml_text(item.dc_date))
        description == xml_text(item.description)
    IN  add_item([title    |-> title,
                  link     |-> link,
                  id_like  |-> Or(guid, link),
                  pub_date |-> pubDate,
                  doi      |-> guess_doi(<<guid, description, link>>),
                  journal  |-> None])

\* One entry of an Atom feed.  `find(...) or find(...)` on elements tests the
\* truth value of an Element, which is false for an element without children:
\* the atom:link found is used only if it has child elements.
ParseAtomEntry(entry) ==
    LET title == Or(xml_text(entry.atom_title), xml_text(entry.title))
        link == IF entry.atom_link_present /\ entry.atom_link_children
                THEN entry.atom_link_href
                ELSE IF entry.link_present THEN entry.link_href ELSE None
        entry_id == Or(xml_text(entry.atom_id), xml_text(entry.id))
        published == Or(xml_text(entry.atom_published), xml_text(entry.published))
        updated == Or(xml_text(entry.atom_updated), xml_text(entry.updated))
    IN  add_item([title    |-> title,
                  link     |-> link,
                  id_like  |-> Or(entry_id, link),
                  pub_date |-> Or(published, updated),
                  doi      |-> guess_doi(<<entry_id, link>>),
                  journal  |-> None])

\* xml_root: ET.fromstring raises on a body that is not well-formed XML.
xml_root_raises(body) == ~body.wellformed

\* parse_feed on a well-formed body.  A body is the parsed tree: the root's
\* tag, which children find() finds, and the lists findall() returns.
parse_feed(body) ==
    IF body.tag = "RDF" \/ body.has_rss_channel
    THEN [i \in DOMAIN body.rss_items |-> ParseRdfItem(body.rss_items[i])]
    ELSE IF body.tag = "rss" \/ body.has_channel
    THEN IF body.has_channel
         THEN [i \in DOMAIN body.channel_items |-> ParseRss2Item(body.channel_items[i])]
         ELSE <<>>
    ELSE IF body.tag = "feed" \/ body.has_atom_feed
    THEN LET es == IF body.atom_entries # <<>> THEN body.atom_entries ELSE body.entries
         IN  [i \in DOMAIN es |-> ParseAtomEntry(es[i])]
    ELSE <<>>

(***************************************************************************)
(* Identity                                                                *)
(***************************************************************************)
\* The keys of an item in the order json.dumps(sort_keys=True) writes them.
SortedKeys == <<"_uid", "doi", "id_like", "journal", "link", "pub_date", "title">>

\* json.dumps(item, sort_keys=True): the keys the dict holds, in sorted order,
\* each with its value.  Key names and null are elements that are no character.
RECURSIVE DumpKeys(_, _)
DumpKeys(item, keys) ==
    IF keys = <<>> THEN <<>>
    ELSE LET k == Head(keys) IN
         (IF k \in DOMAIN item
          THEN <<"#key:" \o k>> \o (IF item[k] = None THEN <<"#null">> ELSE item[k])
          ELSE <<>>) \o DumpKeys(item, Tail(keys))

json_dumps(item) == DumpKeys(item, SortedKeys)

Prefix_doi == <<"d", "o", "i", ":">>
Prefix_id == <<"i", "d", ":">>
Prefix_linkhash == <<"l", "i", "n", "k", "h", "a", "s", "h", ":">>
Prefix_hash == <<"h", "a", "s", "h", ":">>

compute_uid(item) ==
    IF Truthy(item.doi) THEN Prefix_doi \o Lower(item.doi)
    ELSE IF Truthy(item.id_like) THEN Prefix_id \o item.id_like
    ELSE IF Truthy(item.link) THEN Prefix_linkhash \o sha256_16(item.link)
    ELSE Prefix_hash \o sha256_16(json_dumps(item))

\* it["_uid"] = uid: the dict of the item with the key _uid added or replaced.
WithUid(it, uid) ==
    [k \in DOMAIN it \cup {"_uid"} |-> IF k = "_uid" THEN uid ELSE it[k]]

(***************************************************************************)
(* Article page extraction.  A page is the parsed document: the objects    *)
(* parse_jsonld collects from its ld+json scripts, the content of its meta *)
(* tags, and the text of the element the abstract search finds.            *)
(***************************************************************************)
\* select_meta: the stripped content of the first meta tag of that name.
select_meta(page, name) ==
    IF Truthy(page.meta[name]) THEN Strip(page.meta[name], WS) ELSE None

\* pick_article_obj raises when an object of the list is not a dict
\* (obj.get on a str, a number, a list) before an article object is found.
ArticleTypes ==
    {<<"A", "r", "t", "i", "c", "l", "e">>,
     <<"S", "c", "h", "o", "l", "a", "r", "l", "y", "A", "r", "t", "i", "c", "l", "e">>,
     <<"N", "e", "w", "s", "A", "r", "t", "i", "c", "l", "e">>}

\* t = obj.get("@type") or obj.get("type"); a list @type is held as its first
\* element.
TypeOf(obj) == Or(obj.attype, obj.type)

RECURSIVE pick_article_obj_raises(_)
pick_article_obj_raises(jsonlds) ==
    IF jsonlds = <<>> THEN FALSE
    ELSE LET obj == Head(jsonlds) IN
         IF ~obj.isdict THEN TRUE
         ELSE IF TypeOf(obj) \in ArticleTypes THEN FALSE
         ELSE pick_article_obj_raises(Tail(jsonlds))

\* pick_article_obj: the first object of an article type, NoObj if none.
NoObj == [isdict |-> FALSE]

RECURSIVE pick_article_obj(_)
pick_article_obj(jsonlds) ==
    IF jsonlds = <<>> THEN NoObj
    ELSE LET obj == Head(jsonlds) IN
         IF obj.isdict /\ TypeOf(obj) \in ArticleTypes THEN obj
         ELSE pick_article_obj(Tail(jsonlds))

\* Whether 10\.\d{4,9}/\S+ matches at s[i] (no word boundary is asked for).
JsonldDoiMatchAt(s, i) ==
    /\ StartsWith(From(s, i), <<"1", "0", ".">>)
    /\ LET k == DoiDigitsAt(s, i) IN
         /\ k >= DoiMinDigits
         /\ k <= DoiMaxDigits
         /\ i + 3 + k <= Len(s)
         /\ s[i + 3 + k] = "/"
         /\ RunLenNot(From(s, i + 4 + k), WS) >= 1

\* re.search(r'10\.\d{4,9}/\S+', s).group(0), None without a match.
JsonldDoiSearch(s) ==
    LET hits == {i \in 1..Len(s) : JsonldDoiMatchAt(s, i)} IN
    IF hits = {} THEN None
    ELSE LET i == CHOOSE j \in hits : \A h \in hits : j <= h
             k == DoiDigitsAt(s, i)
             m == RunLenNot(From(s, i + 4 + k), WS)
         IN  SubSeq(s, i, i + 3 + k + m)

\* The identifier of the object as the list of the strings the code looks at:
\* a str is itself, a dict its value or @id, a list the same of each element.
\* The doi is the match in the first string that has one.
RECURSIVE IdentifierDoi(_)
IdentifierDoi(ident) ==
    IF ident = <<>> THEN None
    ELSE LET s == Head(ident) IN
         IF Truthy(s) /\ JsonldDoiSearch(s) # None THEN JsonldDoiSearch(s)
         ELSE IdentifierDoi(Tail(ident))

\* extract_from_jsonld: a dict that holds all six keys, whatever their values.
extract_from_jsonld(obj) ==
    [title          |-> clean_text(Or(obj.headline, obj.name)),
     abstract       |-> clean_text(Or(obj.abstract, obj.description)),
     date_published |-> clean_text(Or(obj.datePublished, obj.dateCreated)),
     journal        |-> clean_text(Or(Or(obj.isPartOf_name, None), obj.publisher_name)),
     type           |-> clean_text(Or(obj.articleSection, obj.type)),
     doi            |-> clean_text(IdentifierDoi(obj.identifier))]

\* The empty dict.
EmptyDict == [k \in {} |-> None]

\* d.setdefault(k, v): sets d[k] only when d has no key k.
setdefault(d, k, v) ==
    IF k \in DOMAIN d THEN d
    ELSE [x \in DOMAIN d \cup {k} |-> IF x = k THEN v ELSE d[x]]

\* d[k] = v
setitem(d, k, v) == [x \in DOMAIN d \cup {k} |-> IF x = k THEN v ELSE d[x]]

\* d.get(k)
get(d, k) == IF k \in DOMAIN d THEN d[k] ELSE None

\* The last fallback of extract_article_fields: while base has no abstract, the
\* text of the page's abstract element, and without such an element the
\* og:description of the page.
AbstractFallback(base, page) ==
    IF Truthy(get(base, "abstract")) THEN base
    ELSE IF page.abstract_el = None
         THEN IF Truthy(page.og_description)
              THEN setitem(base, "abstract", clean_text(page.og_description))
              ELSE base
         ELSE setitem(base, "abstract", clean_text(page.abstract_el))

\* extract_article_fields(html_text, url)
extract_article_fields(page, url) ==
    LET obj == pick_article_obj(page.jsonlds)
        b0 == IF obj.isdict THEN extract_from_jsonld(obj) ELSE EmptyDict
        b1 == setdefault(b0, "journal", select_meta(page, "citation_journal_title"))
        b2 == setdefault(b1, "title", select_meta(page, "citation_title"))
        b3 == setdefault(b2, "doi", select_meta(page, "citation_doi"))
        b4 == setdefault(b3, "date_published", select_meta(page, "citation_publication_date"))
        b5 == setdefault(b4, "type", select_meta(page, "citation_article_type"))
        b6 == setdefault(b5, "abstract",
                         Or(select_meta(page, "dc.description"), select_meta(page, "description")))
    IN  setitem(AbstractFallback(b6, page), "article_url", url)

\* {**a, **{k: v for k, v in b.items() if v}}
MergeTruthy(a, b) ==
    [k \in DOMAIN a \cup {x \in DOMAIN b : Truthy(b[x])} |->
        IF k \in DOMAIN b /\ Truthy(b[k]) THEN b[k] ELSE a[k]]

\* translate_openai_en2zh is not called: the translator of the configuration
\* is "none", the default of run_pipeline.
translator == "none"

\* The record run_pipeline writes: the merged fields, then the feed's values
\* for title, date, doi and url; with no translator the Chinese fields are the
\* English ones.
RecordOf(merged, title_en, abstract_en, it) ==
    [journal     |-> get(merged, "journal"),
     title_en    |-> title_en,
     title_cn    |-> title_en,
     type        |-> get(merged, "type"),
     pub_date    |-> Or(get(merged, "date_published"), it.pub_date),
     doi         |-> Or(get(merged, "doi"), it.doi),
     article_url |-> Or(Or(get(merged, "article_url"), it.link), <<>>),
     abstract_en |-> abstract_en,
     abstract_cn |-> abstract_en]

\* merged = {**fallback_fields, **truthy fields_from_jsonld}, then title_en and
\* abstract_en read from it.
MergedRecord(merged, it) ==
    RecordOf(merged, Or(get(merged, "title"), it.title), get(merged, "abstract"), it)

\* The record run_pipeline builds from a fetched page and the feed's item.
BuildRecord(page, it) ==
    LET jsonld_obj == pick_article_obj(page.jsonlds)
        fields_from_jsonld == IF jsonld_obj.isdict THEN extract_from_jsonld(jsonld_obj)
                              ELSE EmptyDict
        fallback_fields == extract_article_fields(page, Or(it.link, <<>>))
    IN  MergedRecord(MergeTruthy(fallback_fields, fields_from_jsonld), it)

(***************************************************************************)
(* Tables.  A table is a function from the keys of its rows to the rows.   *)
(***************************************************************************)
EmptyTable == [k \in {} |-> None]

Put(t, k, row) == [x \in DOMAIN t \cup {k} |-> IF x = k THEN row ELSE t[x]]

\* check_new_items without its SELECT on seen: every item is returned.  C1
\* fails with it.
check_new_items_all(seenTbl, feed_items) ==
    [i \in DOMAIN feed_items |-> WithUid(feed_items[i], compute_uid(feed_items[i]))]

\* check_new_items: the items whose uid has no row in seen, each with _uid.
RECURSIVE check_new_items(_, _)
check_new_items(seenTbl, feed_items) ==
    IF feed_items = <<>> THEN <<>>
    ELSE LET it == Head(feed_items)
             uid == compute_uid(it)
             rest == check_new_items(seenTbl, Tail(feed_items))
         IN  IF uid \notin DOMAIN seenTbl THEN <<WithUid(it, uid)>> \o rest ELSE rest

\* mark_seen with INSERT OR REPLACE in place of INSERT OR IGNORE.  C6 fails
\* with it.
mark_seen_replace(seenTbl, uid, feed_url, article_url, doi, pub_date, now) ==
    Put(seenTbl, uid, [feed_url      |-> feed_url,
                       article_url   |-> article_url,
                       doi           |-> doi,
                       pub_date      |-> pub_date,
                       first_seen_at |-> now])

\* mark_seen: INSERT OR IGNORE INTO seen, committed.
mark_seen(seenTbl, uid, feed_url, article_url, doi, pub_date, now) ==
    IF uid \in DOMAIN seenTbl THEN seenTbl
    ELSE Put(seenTbl, uid, [feed_url      |-> feed_url,
                            article_url   |-> article_url,
                            doi           |-> doi,
                            pub_date      |-> pub_date,
                            first_seen_at |-> now])

\* upsert_article: INSERT ... ON CONFLICT(uid) DO UPDATE, committed.  The
\* update sets every column but uid, feed_url and fetched_at.
upsert_article(articlesTbl, uid, feed_url, fields, raw_jsonld, now) ==
    LET row == [feed_url        |-> feed_url,
                journal         |-> fields.journal,
                title_en        |-> fields.title_en,
                title_cn        |-> fields.title_cn,
                type            |-> fields.type,
                pub_date        |-> fields.pub_date,
                doi             |-> fields.doi,
                article_url     |-> fields.article_url,
                abstract_en     |-> fields.abstract_en,
                abstract_cn     |-> fields.abstract_cn,
                raw_jsonld      |-> raw_jsonld,
                fetched_at      |-> now,
                last_updated_at |-> now]
    IN  IF uid \in DOMAIN articlesTbl
        THEN Put(articlesTbl, uid,
                 [row EXCEPT !.feed_url = articlesTbl[uid].feed_url,
                             !.fetched_at = articlesTbl[uid].fetched_at])
        ELSE Put(articlesTbl, uid, row)

\* INSERT OR REPLACE INTO feeds(feed_url, etag, last_modified, last_checked_at)
put_feed(feedsTbl, feed_url, etag, last_modified, now) ==
    Put(feedsTbl, feed_url, [etag            |-> etag,
                             last_modified   |-> last_modified,
                             last_checked_at |-> now])

Max(S) == CHOOSE x \in S : \A y \in S : y <= x

\* get_last_new_ts_for_feed: MAX(first_seen_at) of the feed's seen rows; the
\* caller's `or now_ts()` is applied here.
get_last_new_ts_for_feed(seenTbl, feed_url, now) ==
    LET ts == {seenTbl[u].first_seen_at : u \in {x \in DOMAIN seenTbl : seenTbl[x].feed_url = feed_url}}
    IN  IF ts = {} THEN now ELSE Max(ts)

(***************************************************************************)
(* Report naming                                                           *)
(***************************************************************************)
\* The journals of a list of values with the number of times each occurs.
Count(seq, j) == Cardinality({i \in DOMAIN seq : seq[i] = j})

\* majority_journal: the truthy journal that occurs most often in the meta of
\* todays_items; of several, the one that occurs first (the sort is stable).
majority_journal(items) ==
    LET js == [i \in DOMAIN items |-> items[i].meta.journal]
        idxs == {i \in DOMAIN js : Truthy(js[i])}
    IN  IF idxs = {} THEN None
        ELSE js[CHOOSE i \in idxs :
                   /\ \A k \in idxs : Count(js, js[k]) <= Count(js, js[i])
                   /\ \A k \in idxs : Count(js, js[k]) = Count(js, js[i]) => i <= k]

\* SELECT journal, COUNT(*) c FROM articles WHERE feed_url=? AND journal IS NOT
\* NULL GROUP BY journal ORDER BY c DESC LIMIT 1: the journals the query may
\* return (SQL leaves the order of equal counts open).
TopJournals(articlesTbl, feed_url) ==
    LET us == {u \in DOMAIN articlesTbl :
                  articlesTbl[u].feed_url = feed_url /\ articlesTbl[u].journal # None}
        n(j) == Cardinality({u \in us : articlesTbl[u].journal = j})
    IN  {articlesTbl[u].journal : u \in {x \in us : \A y \in us :
                                    n(articlesTbl[y].journal) <= n(articlesTbl[x].journal)}}

Scheme_http == <<"h", "t", "t", "p", ":", "/", "/">>
Scheme_https == <<"h", "t", "t", "p", "s", ":", "/", "/">>
Www == <<"w", "w", "w", ".">>

\* re.sub(r"^https?://(www\.)?", "", feed_url).split("/")[0] or "UnknownJournal"
FeedDomain(feed_url) ==
    LET a == IF StartsWith(feed_url, Scheme_http) THEN From(feed_url, Len(Scheme_http) + 1)
             ELSE IF StartsWith(feed_url, Scheme_https) THEN From(feed_url, Len(Scheme_https) + 1)
             ELSE feed_url
        stripped == a # feed_url
        b == IF stripped /\ StartsWith(a, Www) THEN From(a, Len(Www) + 1) ELSE a
        host == SubSeq(b, 1, RunLenNot(b, {"/"}))
    IN  Or(host, <<"U", "n", "k", "n", "o", "w", "n", "J", "o", "u", "r", "n", "a", "l">>)

Unsafe == {"\\", "/", ":", "*", "?", "\"", "<", ">", "|"}

\* sanitize_filename(s): unsafe characters and runs of whitespace become "_",
\* then strip("._"); "report" if nothing is left.
RECURSIVE SubWS(_)
SubWS(s) ==
    IF s = <<>> THEN s
    ELSE IF Head(s) \in WS THEN <<"_">> \o SubWS(LStrip(s, WS))
         ELSE <<Head(s)>> \o SubWS(Tail(s))

sanitize_filename(s) ==
    IF ~Truthy(s) THEN <<"r", "e", "p", "o", "r", "t">>
    ELSE LET a == [i \in DOMAIN s |-> IF s[i] \in Unsafe THEN "_" ELSE s[i]]
         IN  Or(Strip(SubWS(a), {".", "_"}), <<"r", "e", "p", "o", "r", "t">>)

\* os.path.join(out_dir, f"rss_report_{sanitize_filename(journal_name)}_{ts}.md"):
\* ts has a fixed width (YYYYMMDD_HHMMSS, to the second), so the name is a
\* one-to-one function of the sanitized journal name and the second.
ReportPath(journal_name, now) == [journal |-> sanitize_filename(journal_name), ts |-> now]

(***************************************************************************)
(* The configuration and the world of the model: two feeds of one host,    *)
(* the feed bodies and response headers a server may answer with, and the  *)
(* article pages a link may lead to.                                       *)
(***************************************************************************)
FeedA == <<"h", "t", "t", "p", ":", "/", "/", "n", ".", "c", "/", "a">>
FeedB == <<"h", "t", "t", "p", "s", ":", "/", "/", "w", "w", "w", ".", "n", ".", "c", "/", "b">>

\* config["feeds"]
Feeds == <<FeedA, FeedB>>

Link1 == <<"h", "t", "t", "p", ":", "/", "/", "n", ".", "c", "/", "1">>
Link2 == <<"h", "t", "t", "p", ":", "/", "/", "n", ".", "c", "/", "2">>
LinkDoi == <<"h", "t", "t", "p", ":", "/", "/", "n", ".", "c", "/", "1", "0", ".", "1", "0", "0", "0", "/", "x">>
DoiUpper == <<"1", "0", ".", "1", "0", "0", "0", "/", "X">>
AtomId2 == <<"u", "2">>
DoiLower == <<"1", "0", ".", "1", "0", "0", "0", "/", "x">>
Title1 == <<"T", "1">>
Nature == <<"N", "a", "t">>

Rss2Item(guid, link, title) ==
    [title |-> title, dc_title |-> None, link |-> link, guid |-> guid,
     pubDate |-> None, dc_date |-> None, description |-> None]

RdfItem(about, dc_identifier, prism_doi, link, title) ==
    [rss_title |-> title, dc_title |-> None, rss_link |-> link, about |-> about,
     dc_date |-> None, prism_doi |-> prism_doi, prism_publicationName |-> None,
     dc_identifier |-> dc_identifier]

AtomEntry(atom_id, atom_link, atom_link_children, link, title) ==
    [atom_title |-> title, title |-> None,
     atom_link_present |-> atom_link # None, atom_link_href |-> atom_link,
     atom_link_children |-> atom_link_children,
     link_present |-> link # None, link_href |-> link,
     atom_id |-> atom_id, id |-> None,
     atom_published |-> None, published |-> None,
     atom_updated |-> None, updated |-> None]

Body(tag, rss_items, channel_items, atom_entries) ==
    [wellformed |-> TRUE, tag |-> tag,
     has_rss_channel |-> tag = "RDF", has_channel |-> tag = "rss",
     has_atom_feed |-> FALSE,
     rss_items |-> rss_items, channel_items |-> channel_items,
     atom_entries |-> atom_entries, entries |-> <<>>]

\* An RSS 2.0 body whose two items carry the same doi (in the guid of the
\* first, in the link of the second).
BodyRss2 ==
    Body("rss", <<>>, <<Rss2Item(DoiUpper, Link1, Title1), Rss2Item(None, LinkDoi, None)>>, <<>>)

\* An Atom body: one entry with an atom:id and an atom:link (an empty
\* element, as Atom writes it).
BodyAtom ==
    Body("feed", <<>>, <<>>, <<AtomEntry(AtomId2, Link2, FALSE, None, None)>>)

\* A body that is not well-formed XML.
BodyBad == [wellformed |-> FALSE]

Bodies == {BodyRss2, BodyAtom, BodyBad}

Etag1 == <<"e", "1">>

\* The ETag and Last-Modified headers of the 2xx response that carries a
\* body (None: the header is not sent): the server of the RSS 2.0 body sends
\* an ETag, the others send no validator.
HeadersOf(body) ==
    IF body = BodyRss2 THEN [etag |-> Etag1, last_modified |-> None]
    ELSE [etag |-> None, last_modified |-> None]

MetaNames == {"citation_journal_title", "citation_title", "citation_doi",
              "citation_publication_date", "citation_article_type",
              "dc.description", "description"}

NoMeta == [n \in MetaNames |-> None]

JsonldObj(attype, headline, journal, identifier) ==
    [isdict |-> TRUE, attype |-> attype, type |-> None,
     headline |-> headline, name |-> None,
     abstract |-> None, description |-> None,
     datePublished |-> None, dateCreated |-> None,
     articleSection |-> None, identifier |-> identifier,
     isPartOf_name |-> journal, publisher_name |-> None]

Page(jsonlds, meta) ==
    [jsonlds |-> jsonlds, meta |-> meta, abstract_el |-> None, og_description |-> None]

\* A page with an Article object in its structured data.
PageJsonld == Page(<<JsonldObj(<<"A", "r", "t", "i", "c", "l", "e">>, Title1, Nature, <<>>)>>, NoMeta)

\* A page whose ld+json script holds a list of strings.
PageBad == Page(<<[isdict |-> FALSE]>>, NoMeta)

Pages == {PageJsonld, PageBad}

\* Bounds of the model.
MaxRuns == 2
MaxClock == 1

(***************************************************************************)
(* State                                                                   *)
(***************************************************************************)
VARIABLES
    feeds,          \* table feeds: feed_url -> etag, last_modified, last_checked_at
    seen,           \* table seen: uid -> feed_url, article_url, doi, pub_date, first_seen_at
    articles,       \* table articles: uid -> the article record
    files,          \* the report files of out_dir: path -> content
    clock,          \* the wall clock, in seconds (now_ts, ts_for_filename)
    run,            \* number of runs of run_pipeline started
    pc,             \* where run_pipeline is: "idle", "feed", "items", "mark"
    fi,             \* index in Feeds of the feed of the for loop
    items,          \* items of the current feed
    new_items,      \* new_items of the current feed
    idx,            \* index in new_items of the item of the inner loop
    todays_items,   \* todays_items of the current feed
    written_paths,  \* written_paths of the run
    pending,        \* the record upserted for the current item, until mark_seen
    outcome,        \* how the last run ended: "none", "finished", "crashed", "interrupted"
    lastStep,       \* history: the last step of run_pipeline taken
    attempt,        \* history: the last feed fetch attempt (url, second, result)
    seenAtStart,    \* history: the uids of seen when the run started
    fetchLog,       \* history: the uids whose article page was fetched, this run
    upsertLog,      \* history: the uids upsert_article was called for, this run
    failedFeeds,    \* history: the indexes of the feeds whose fetch failed, this run
    hin,            \* input of the function under study (function specifications)
    hout            \* its result

pipeVars == <<feeds, seen, articles, files, clock, run, pc, fi, items, new_items, idx,
              todays_items, written_paths, pending, outcome, lastStep, attempt,
              seenAtStart, fetchLog, upsertLog, failedFeeds>>

vars == <<pipeVars, hin, hout>>

NoPending == [uid |-> None]
NoAttempt == [url |-> None, at |-> 0, result |-> "none"]

PipeInit ==
    /\ feeds = EmptyTable
    /\ seen = EmptyTable
    /\ articles = EmptyTable
    /\ files = EmptyTable
    /\ clock = 0
    /\ run = 0
    /\ pc = "idle"
    /\ fi = 1
    /\ items = <<>>
    /\ new_items = <<>>
    /\ idx = 1
    /\ todays_items = <<>>
    /\ written_paths = <<>>
    /\ pending = NoPending
    /\ outcome = "none"
    /\ lastStep = "none"
    /\ attempt = NoAttempt
    /\ seenAtStart = {}
    /\ fetchLog = <<>>
    /\ upsertLog = <<>>
    /\ failedFeeds = {}

\* The function specifications below do not run in Spec.
Off == [stage |-> "off"]

Init == PipeInit /\ hin = Off /\ hout = Off

feed_url == Feeds[fi]

(***************************************************************************)
(* run_pipeline                                                            *)
(***************************************************************************)
\* The wall clock advances.
Tick ==
    /\ clock < MaxClock
    /\ clock' = clock + 1
    /\ UNCHANGED <<feeds, seen, articles, files, run, pc, fi, items, new_items, idx,
                   todays_items, written_paths, pending, outcome, lastStep, attempt,
                   seenAtStart, fetchLog, upsertLog, failedFeeds, hin, hout>>

\* run_pipeline is called: the database is opened, the loop over feeds begins.
BeginRun(n) ==
    /\ pc = "idle"
    /\ run' = n
    /\ pc' = "feed"
    /\ fi' = 1
    /\ items' = <<>>
    /\ new_items' = <<>>
    /\ idx' = 1
    /\ todays_items' = <<>>
    /\ written_paths' = <<>>
    /\ pending' = NoPending
    /\ outcome' = "none"
    /\ lastStep' = "start"
    /\ seenAtStart' = DOMAIN seen
    /\ fetchLog' = <<>>
    /\ upsertLog' = <<>>
    /\ failedFeeds' = {}
    /\ UNCHANGED <<feeds, seen, articles, files, clock, attempt, hin, hout>>

\* The runs are counted up to MaxRuns.
StartRun == run < MaxRuns /\ BeginRun(run + 1)

\* The validators run_pipeline reads from the feeds table for the request.
StoredEtag == IF feed_url \in DOMAIN feeds THEN feeds[feed_url].etag ELSE None
StoredLastMod == IF feed_url \in DOMAIN feeds THEN feeds[feed_url].last_modified ELSE None

AtFeed == pc = "feed" /\ fi <= Len(Feeds)

\* fetch_feed raises (transport error, or raise_for_status on a status that is
\* neither 2xx nor 304): the warning is printed and the loop continues.
FeedFetchFails ==
    /\ AtFeed
    /\ fi' = fi + 1
    /\ failedFeeds' = failedFeeds \cup {fi}
    /\ lastStep' = "feed_failed"
    /\ attempt' = [url |-> feed_url, at |-> clock, result |-> "failed"]
    /\ UNCHANGED <<feeds, seen, articles, files, clock, run, pc, items, new_items, idx,
                   todays_items, written_paths, pending, outcome, seenAtStart,
                   fetchLog, upsertLog, hin, hout>>

\* The 304 branch storing the validators of the response (none on a 304 of
\* this server) instead of the stored ones.  C11 fails with it.
FeedNotModified_DropValidators ==
    /\ AtFeed
    /\ Truthy(StoredEtag) \/ Truthy(StoredLastMod)
    /\ feeds' = put_feed(feeds, feed_url, None, None, clock)
    /\ items' = <<>>
    /\ new_items' = check_new_items(seen, <<>>)
    /\ idx' = 1
    /\ todays_items' = <<>>
    /\ pc' = "items"
    /\ lastStep' = "feed_304"
    /\ attempt' = [url |-> feed_url, at |-> clock, result |-> "304"]
    /\ UNCHANGED <<seen, articles, files, clock, run, fi, written_paths, pending, outcome,
                   seenAtStart, fetchLog, upsertLog, failedFeeds, hin, hout>>

\* The server answers 304 to a request that carried a validator.
FeedNotModified ==
    /\ AtFeed
    /\ Truthy(StoredEtag) \/ Truthy(StoredLastMod)
    /\ feeds' = put_feed(feeds, feed_url, StoredEtag, StoredLastMod, clock)
    /\ items' = <<>>
    /\ new_items' = check_new_items(seen, <<>>)
    /\ idx' = 1
    /\ todays_items' = <<>>
    /\ pc' = "items"
    /\ lastStep' = "feed_304"
    /\ attempt' = [url |-> feed_url, at |-> clock, result |-> "304"]
    /\ UNCHANGED <<seen, articles, files, clock, run, fi, written_paths, pending, outcome,
                   seenAtStart, fetchLog, upsertLog, failedFeeds, hin, hout>>

\* The server answers 2xx with a body that parses: the validators of the
\* response are stored, the body is parsed and the new items are picked.
FeedFetched ==
    /\ AtFeed
    /\ \E body \in Bodies :
         /\ ~xml_root_raises(body)
         /\ feeds' = put_feed(feeds, feed_url, HeadersOf(body).etag,
                              HeadersOf(body).last_modified, clock)
         /\ items' = parse_feed(body)
         /\ new_items' = check_new_items(seen, parse_feed(body))
    /\ idx' = 1
    /\ todays_items' = <<>>
    /\ pc' = "items"
    /\ lastStep' = "feed_ok"
    /\ attempt' = [url |-> feed_url, at |-> clock, result |-> "2xx"]
    /\ UNCHANGED <<seen, articles, files, clock, run, fi, written_paths, pending, outcome,
                   seenAtStart, fetchLog, upsertLog, failedFeeds, hin, hout>>

\* The server answers 2xx with a body that is not well-formed XML: the
\* validators are stored, then parse_feed raises and nothing catches it.
FeedMalformed ==
    /\ AtFeed
    /\ \E body \in Bodies :
         /\ xml_root_raises(body)
         /\ feeds' = put_feed(feeds, feed_url, HeadersOf(body).etag,
                              HeadersOf(body).last_modified, clock)
    /\ pc' = "idle"
    /\ outcome' = "crashed"
    /\ lastStep' = "feed_malformed"
    /\ attempt' = [url |-> feed_url, at |-> clock, result |-> "2xx"]
    /\ UNCHANGED <<seen, articles, files, clock, run, fi, items, new_items, idx,
                   todays_items, written_paths, pending, seenAtStart, fetchLog,
                   upsertLog, failedFeeds, hin, hout>>

AtItem == pc = "items" /\ idx <= Len(new_items)

it == new_items[idx]

\* The handler of a failed article fetch without its call of mark_seen.  C4
\* fails with it.
ArticleFetchFails_NoMark ==
    /\ AtItem
    /\ idx' = idx + 1
    /\ lastStep' = "article_failed"
    /\ UNCHANGED <<feeds, seen, articles, files, clock, run, pc, fi, items, new_items,
                   todays_items, written_paths, pending, outcome, attempt, seenAtStart,
                   fetchLog, upsertLog, failedFeeds, hin, hout>>

\* requests.get(link) raises or raise_for_status does (a link of None raises
\* too): the item is marked seen and the loop continues.
ArticleFetchFails ==
    /\ AtItem
    /\ seen' = mark_seen(seen, it._uid, feed_url, Or(it.link, <<>>), it.doi, it.pub_date, clock)
    /\ idx' = idx + 1
    /\ lastStep' = "article_failed"
    /\ UNCHANGED <<feeds, articles, files, clock, run, pc, fi, items, new_items,
                   todays_items, written_paths, pending, outcome, attempt, seenAtStart,
                   fetchLog, upsertLog, failedFeeds, hin, hout>>

\* The page is fetched and its metadata extracted: the record is upserted.
ArticleFetched ==
    /\ AtItem
    /\ Truthy(it.link)
    /\ \E page \in Pages :
         /\ ~pick_article_obj_raises(page.jsonlds)
         /\ \E record \in {BuildRecord(page, it)} :
              /\ articles' = upsert_article(articles, it._uid, feed_url, record,
                                            pick_article_obj(page.jsonlds), clock)
              /\ pending' = [uid |-> it._uid, record |-> record]
    /\ pc' = "mark"
    /\ fetchLog' = Append(fetchLog, it._uid)
    /\ upsertLog' = Append(upsertLog, it._uid)
    /\ lastStep' = "upsert"
    /\ UNCHANGED <<feeds, seen, files, clock, run, fi, items, new_items, idx,
                   todays_items, written_paths, outcome, attempt, seenAtStart,
                   failedFeeds, hin, hout>>

\* The page is fetched and pick_article_obj raises on it: nothing catches it.
ArticleExtractRaises ==
    /\ AtItem
    /\ Truthy(it.link)
    /\ \E page \in Pages : pick_article_obj_raises(page.jsonlds)
    /\ pc' = "idle"
    /\ outcome' = "crashed"
    /\ fetchLog' = Append(fetchLog, it._uid)
    /\ lastStep' = "extract_raised"
    /\ UNCHANGED <<feeds, seen, articles, files, clock, run, fi, items, new_items, idx,
                   todays_items, written_paths, pending, attempt, seenAtStart,
                   upsertLog, failedFeeds, hin, hout>>

\* The step after upsert_article without its call of mark_seen.  C14 fails
\* with it.
MarkSeen_NoInsert ==
    /\ pc = "mark"
    /\ todays_items' = Append(todays_items,
                              [uid |-> pending.uid, feed_url |-> feed_url,
                               article_url |-> pending.record.article_url,
                               doi |-> pending.record.doi,
                               pub_date |-> pending.record.pub_date,
                               meta |-> pending.record, fetched_at |-> clock])
    /\ idx' = idx + 1
    /\ pc' = "items"
    /\ pending' = NoPending
    /\ lastStep' = "mark_seen"
    /\ UNCHANGED <<feeds, seen, articles, clock, files, run, fi, items, new_items,
                   written_paths, outcome, attempt, seenAtStart, fetchLog, upsertLog,
                   failedFeeds, hin, hout>>

\* After upsert_article: mark_seen, the item joins todays_items, next item.
MarkSeen ==
    /\ pc = "mark"
    /\ seen' = mark_seen(seen, pending.uid, feed_url, pending.record.article_url,
                         pending.record.doi, pending.record.pub_date, clock)
    /\ todays_items' = Append(todays_items,
                              [uid |-> pending.uid, feed_url |-> feed_url,
                               article_url |-> pending.record.article_url,
                               doi |-> pending.record.doi,
                               pub_date |-> pending.record.pub_date,
                               meta |-> pending.record, fetched_at |-> clock])
    /\ idx' = idx + 1
    /\ pc' = "items"
    /\ pending' = NoPending
    /\ lastStep' = "mark_seen"
    /\ UNCHANGED <<feeds, articles, files, clock, run, fi, items, new_items,
                   written_paths, outcome, attempt, seenAtStart, fetchLog, upsertLog,
                   failedFeeds, hin, hout>>

\* The journal name of the report: the majority of todays_items, else the
\* journal the query on articles returns, else the host of the feed URL.
JournalNames ==
    LET m == majority_journal(todays_items) IN
    IF Truthy(m) THEN {m}
    ELSE LET top == TopJournals(articles, feed_url) IN
         IF top = {} THEN {FeedDomain(feed_url)}
         ELSE {IF Truthy(j) THEN j ELSE FeedDomain(feed_url) : j \in top}

\* The items of the feed are done: the report file is written (open "w"
\* replaces a file of that name) and its path appended to written_paths.
WriteReport ==
    /\ pc = "items"
    /\ idx > Len(new_items)
    /\ \E journal_name \in JournalNames :
         LET md_path == ReportPath(journal_name, clock) IN
           /\ files' = Put(files, md_path,
                           [journal_name |-> journal_name,
                            last_new_ts |-> get_last_new_ts_for_feed(seen, feed_url, clock),
                            placeholder |-> todays_items = <<>>,
                            entries |-> [i \in DOMAIN todays_items |-> todays_items[i].meta]])
           /\ written_paths' = Append(written_paths, md_path)
    /\ fi' = fi + 1
    /\ pc' = "feed"
    /\ lastStep' = "report"
    /\ UNCHANGED <<feeds, seen, articles, clock, run, items, new_items, idx, todays_items,
                   pending, outcome, attempt, seenAtStart, fetchLog, upsertLog,
                   failedFeeds, hin, hout>>

\* The loop over feeds is over: run_pipeline returns written_paths.
FinishRun ==
    /\ pc = "feed"
    /\ fi > Len(Feeds)
    /\ pc' = "idle"
    /\ outcome' = "finished"
    /\ lastStep' = "finish"
    /\ UNCHANGED <<feeds, seen, articles, files, clock, run, fi, items, new_items, idx,
                   todays_items, written_paths, pending, attempt, seenAtStart,
                   fetchLog, upsertLog, failedFeeds, hin, hout>>

\* The process is killed between two commits: what the tables and out_dir
\* hold stays, the memory of the process is gone.
Interrupt ==
    /\ pc # "idle"
    /\ pc' = "idle"
    /\ outcome' = "interrupted"
    /\ lastStep' = "interrupt"
    /\ fi' = 1
    /\ items' = <<>>
    /\ new_items' = <<>>
    /\ idx' = 1
    /\ todays_items' = <<>>
    /\ written_paths' = <<>>
    /\ pending' = NoPending
    /\ attempt' = NoAttempt
    /\ seenAtStart' = {}
    /\ fetchLog' = <<>>
    /\ upsertLog' = <<>>
    /\ failedFeeds' = {}
    /\ UNCHANGED <<feeds, seen, articles, files, clock, run, hin, hout>>

Next ==
    \/ Tick
    \/ StartRun
    \/ FeedFetchFails
    \/ FeedNotModified
    \/ FeedFetched
    \/ FeedMalformed
    \/ ArticleFetchFails
    \/ ArticleFetched
    \/ ArticleExtractRaises
    \/ MarkSeen
    \/ WriteReport
    \/ FinishRun
    \/ Interrupt

Spec == Init /\ [][Next]_vars

(***************************************************************************)
(* Properties of run_pipeline                                              *)
(***************************************************************************)
Distinct(seq) == \A i, j \in DOMAIN seq : i # j => seq[i] # seq[j]

Uids(seq) == {seq[i]._uid : i \in DOMAIN seq}

\* C1: a uid that had a row in seen when a run started is the uid of no item
\* check_new_items returns in that run, for any feed, and no article page is
\* fetched for it in that run.
C1_SeenNeverNew ==
    /\ Uids(new_items) \cap seenAtStart = {}
    /\ Range(fetchLog) \cap seenAtStart = {}

\* C1 witness: in a later run, the feed's body holds an item whose uid was
\* seen before the run, and check_new_items has dropped it.
C1_Witness ==
    /\ run >= 2
    /\ pc = "items"
    /\ \E i \in DOMAIN items : compute_uid(items[i]) \in seenAtStart

\* C2: within one run the article page is fetched at most once per uid and
\* upsert_article is called at most once per uid, also when one feed body
\* holds two items of the same uid.
C2_AtMostOncePerRun == Distinct(fetchLog) /\ Distinct(upsertLog)

\* C3: a run that ends on its own (it is not killed) has gone through every
\* feed of the list: no failure of a feed or of an item ends it early.
C3_FailuresIsolated ==
    (pc = "idle" /\ outcome \in {"finished", "crashed"}) => fi > Len(Feeds)

\* C4: the step that handles a failed article fetch marks the uid seen,
\* leaves the articles table and todays_items (the report's entries) as they
\* are, goes on with the next item of the same feed, and after it
\* check_new_items no longer returns the item.
C4_FetchFailureStep ==
    (lastStep' = "article_failed" /\ AtItem /\ idx' # idx) =>
        /\ it._uid \in DOMAIN seen'
        /\ articles' = articles
        /\ todays_items' = todays_items
        /\ pc' = "items" /\ fi' = fi /\ idx' = idx + 1
        /\ new_items' = new_items
        /\ check_new_items(seen', <<it>>) = <<>>

C4_FetchFailure == [][C4_FetchFailureStep]_vars

\* C4 witness: an article fetch has just failed for a uid that has no
\* article record; the uid is in seen.
C4_Witness ==
    /\ lastStep = "article_failed"
    /\ pc = "items" /\ idx > 1
    /\ new_items[idx - 1]._uid \in DOMAIN seen
    /\ new_items[idx - 1]._uid \notin DOMAIN articles

\* C5: after every attempt to fetch a feed (2xx, 304 or failure) the feeds
\* table has a row for the URL whose last_checked_at is the time of the
\* attempt.
C5_CacheStateEveryAttempt ==
    attempt.result # "none" =>
        /\ attempt.url \in DOMAIN feeds
        /\ feeds[attempt.url].last_checked_at = attempt.at

\* Urls and dois mark_seen may be called with (C6).
SomeTexts == {None, Link1, LinkDoi}

\* C6: a row of seen is never deleted and never changes, and mark_seen for a
\* uid that has a row, from any feed, with any url and doi, at the current
\* time, returns the table as it is.
C6_SeenStep == \A u \in DOMAIN seen : u \in DOMAIN seen' /\ seen'[u] = seen[u]

C6_MarkSeenIgnores ==
    \A u \in DOMAIN seen : \A f \in Range(Feeds) : \A a, d \in SomeTexts :
        mark_seen(seen, u, f, a, d, None, clock) = seen

C6_SeenAppendOnly == [][C6_SeenStep]_vars /\ []C6_MarkSeenIgnores

\* C6 witness: the second of two items of one uid has been handled, so
\* mark_seen has been called for a uid that had its row.
C6_Witness ==
    /\ pc = "items" /\ idx = 3
    /\ new_items[1]._uid = new_items[2]._uid
    /\ new_items[1]._uid \in DOMAIN seen
    /\ lastStep \in {"mark_seen", "article_failed"}

\* C10: when a run has finished, written_paths holds one path for every feed
\* whose fetch did not fail, the paths are pairwise distinct and each is a
\* file of out_dir.
C10_OneReportPerFeed ==
    outcome = "finished" =>
        /\ Len(written_paths) = Len(Feeds) - Cardinality(failedFeeds)
        /\ Distinct(written_paths)
        /\ Range(written_paths) \subseteq DOMAIN files

\* C11: the step that handles a 304 parses nothing (items and new_items are
\* empty), leaves seen and articles as they are, does not end the run, keeps
\* the stored etag and last_modified and records last_checked_at; and the
\* next step of the run after it writes the report of that feed with the
\* "no new articles" placeholder, again without a seen or articles row.
C11_HandledStep ==
    (pc = "feed" /\ lastStep' = "feed_304") =>
        /\ items' = <<>>
        /\ new_items' = <<>>
        /\ seen' = seen
        /\ articles' = articles
        /\ pc' = "items"
        /\ outcome' = outcome
        /\ feed_url \in DOMAIN feeds
        /\ feeds'[feed_url].etag = feeds[feed_url].etag
        /\ feeds'[feed_url].last_modified = feeds[feed_url].last_modified
        /\ feeds'[feed_url].last_checked_at = clock

C11_ReportStep ==
    (lastStep = "feed_304" /\ pc = "items" /\ lastStep' \notin {"feed_304", "interrupt"}) =>
        /\ lastStep' = "report"
        /\ seen' = seen
        /\ articles' = articles
        /\ fetchLog' = fetchLog
        /\ upsertLog' = upsertLog
        /\ written_paths' # written_paths
        /\ LET md_path == written_paths'[Len(written_paths')] IN
             /\ md_path \in DOMAIN files'
             /\ files'[md_path].placeholder
             /\ files'[md_path].entries = <<>>

C11_NotModified == [][C11_HandledStep /\ C11_ReportStep]_vars

\* C11 witness: the report of a feed that answered 304 has just been written.
C11_Witness ==
    /\ lastStep = "report"
    /\ attempt.result = "304"
    /\ fi > 1
    /\ attempt.url = Feeds[fi - 1]
    /\ written_paths # <<>>
    /\ files[written_paths[Len(written_paths)]].placeholder

\* The uids that have a row in articles and none in seen.
Unmarked == DOMAIN articles \ DOMAIN seen

\* An item boundary: before the first item, between two items, or after a
\* run that ended without interruption.
ItemBoundary == pc = "items" \/ (pc = "idle" /\ outcome = "finished")

C14_UpsertOpens ==
    Unmarked' \subseteq Unmarked \/
        (/\ lastStep' = "upsert"
         /\ pc = "items"
         /\ pc' = "mark"
         /\ Unmarked' = Unmarked \cup {pending'.uid}
         /\ pending'.uid = it._uid)

C14_WindowCloses ==
    (pc = "mark" /\ pc' # "mark") =>
        \/ lastStep' = "mark_seen" /\ pc' = "items" /\ pending.uid \in DOMAIN seen'
        \/ lastStep' = "interrupt" /\ pc' = "idle" /\ seen' = seen /\ articles' = articles

C14_LeftIsNew ==
    (pc = "feed" /\ lastStep' = "feed_ok") =>
        \A i \in DOMAIN items' :
            compute_uid(items'[i]) \in Unmarked =>
                \E j \in DOMAIN new_items' : new_items'[j]._uid = compute_uid(items'[i])

C14_FirstRun ==
    (run = 1 /\ outcome # "interrupted" /\ ItemBoundary) => Unmarked = {}

About1 == <<"u", "r", "n", ":", "a", "1">>
DcIdDoi == <<"d", "o", "i", ":", "1", "0", ".", "1", "0", "0", "0", "/", "x">>
Guid1 == <<"g", "1">>
Blank == <<" ">>

RdfEntries ==
    {RdfItem(about, dcid, pdoi, link, title) :
        about \in {None, About1}, dcid \in {None, DcIdDoi}, pdoi \in {None, DoiUpper},
        link \in {None, Link1, LinkDoi}, title \in {None, Title1}}

Rss2Entries ==
    {Rss2Item(guid, link, title) :
        guid \in {None, Guid1, DoiUpper}, link \in {None, Blank, Link1, LinkDoi},
        title \in {None, Title1}}

AtomEntries ==
    {AtomEntry(atom_id, atom_link, children, link, title) :
        atom_id \in {None, AtomId2}, atom_link \in {None, Link1}, children \in BOOLEAN,
        link \in {None, Link2, LinkDoi}, title \in {None, Title1}}

IdBodies ==
    {Body("RDF", <<a, b>>, <<>>, <<>>) : a, b \in RdfEntries}
    \cup {Body("rss", <<>>, <<a, b>>, <<>>) : a, b \in Rss2Entries}
    \cup {Body("feed", <<>>, <<>>, <<a, b>>) : a, b \in AtomEntries}
    \cup {Body("html", <<>>, <<>>, <<>>)}

IdInit ==
    /\ PipeInit
    /\ hin \in IdBodies
    /\ hout = [stage |-> "raw"]

IdParse ==
    /\ hout.stage = "raw"
    /\ hout' = [stage |-> "parsed", items |-> parse_feed(hin)]
    /\ UNCHANGED <<pipeVars, hin>>

IdCheckNew ==
    /\ hout.stage = "parsed"
    /\ hout' = [stage |-> "checked", items |-> hout.items,
                new_items |-> check_new_items(EmptyTable, hout.items)]
    /\ UNCHANGED <<pipeVars, hin>>

IdNext == IdParse \/ IdCheckNew

SpecIdentity == IdInit /\ [][IdNext]_vars

\* The entries parse_feed reads from a body, and the identifiers of an entry
\* other than its link.
RawEntries(body) ==
    IF body.tag = "RDF" THEN body.rss_items
    ELSE IF body.tag = "rss" THEN body.channel_items
    ELSE body.atom_entries

RawIds(body, e) ==
    IF body.tag = "RDF" THEN {e.about, e.dc_identifier}
    ELSE IF body.tag = "rss" THEN {e.guid}
    ELSE {e.atom_id, e.id}

\* C8: an entry that has a link, no guid / rdf:about / atom:id /
\* dc:identifier, and no doi in any field, gets a uid that starts with
\* "linkhash:"; the uid check_new_items attaches is that uid.
C8_LinkOnlyIsLinkhash ==
    hout.stage \in {"parsed", "checked"} =>
        \A i \in DOMAIN hout.items :
            (/\ RawIds(hin, RawEntries(hin)[i]) = {None}
             /\ ~Truthy(hout.items[i].doi)
             /\ Truthy(hout.items[i].link))
            => /\ StartsWith(compute_uid(hout.items[i]), Prefix_linkhash)
               /\ hout.stage = "checked" =>
                    hout.new_items[i]._uid = compute_uid(hout.items[i])

\* The strategy compute_uid takes for an item.
Strategy(item) ==
    IF Truthy(item.doi) THEN "doi"
    ELSE IF Truthy(item.id_like) THEN "id"
    ELSE IF Truthy(item.link) THEN "linkhash"
    ELSE "hash"

\* C9: the uid follows the priority doi, id_like, link, all fields; calling
\* compute_uid again on an item check_new_items has returned gives the uid
\* it was given; uids of different strategies differ.
C9_UidDeterministic ==
    hout.stage = "checked" =>
        \A i \in DOMAIN hout.items :
            LET item == hout.items[i]
                uid == compute_uid(item)
            IN  /\ Strategy(item) = "doi" => uid = Prefix_doi \o Lower(item.doi)
                /\ Strategy(item) = "id" => uid = Prefix_id \o item.id_like
                /\ Strategy(item) = "linkhash" => StartsWith(uid, Prefix_linkhash)
                /\ Strategy(item) = "hash" => StartsWith(uid, Prefix_hash)
                /\ compute_uid(hout.new_items[i]) = hout.new_items[i]._uid
                /\ \A j \in DOMAIN hout.items :
                     Strategy(hout.items[j]) # Strategy(item)
                     => compute_uid(hout.items[j]) # uid

(***************************************************************************)
(* The merge of run_pipeline as a function of a page and a feed item.      *)
(***************************************************************************)
JsonTitle == <<"J", "t">>
JsonJournal == <<"J", "j">>
JsonDate == <<"J", "d">>
JsonSection == <<"J", "s">>
JsonIdent == <<"h", "t", "t", "p", "s", ":", "/", "/", "d", "o", "i", ".", "o", "r", "g", "/", "1", "0", ".", "1", "0", "0", "0", "/", "j">>
MetaTitle == <<"M", "t">>
MetaJournal == <<"M", "j">>
MetaDate == <<"M", "d">>
MetaType == <<"M", "y">>
MetaDoi == <<"1", "0", ".", "1", "0", "0", "0", "/", "m">>
FeedTitle == <<"F", "t">>
FeedDate == <<"F", "d">>
FeedDoi == <<"1", "0", ".", "1", "0", "0", "0", "/", "f">>

MergeObjs ==
    {[JsonldObj(<<"A", "r", "t", "i", "c", "l", "e">>, headline, journal, ident)
        EXCEPT !.datePublished = date, !.articleSection = section] :
        headline \in {None, JsonTitle}, journal \in {None, JsonJournal},
        date \in {None, JsonDate}, section \in {None, JsonSection},
        ident \in {<<>>, <<JsonIdent>>}}

MergeMetas ==
    {[NoMeta EXCEPT !["citation_title"] = t, !["citation_journal_title"] = j,
                    !["citation_publication_date"] = d, !["citation_article_type"] = ty,
                    !["citation_doi"] = doi] :
        t \in {None, MetaTitle}, j \in {None, MetaJournal}, d \in {None, MetaDate},
        ty \in {None, MetaType}, doi \in {None, MetaDoi}}

MergePages ==
    {Page(<<obj>>, meta) : obj \in MergeObjs, meta \in MergeMetas}
    \cup {Page(<<>>, meta) : meta \in MergeMetas}

MergeItems ==
    {[title |-> t, link |-> Link1, id_like |-> Link1, pub_date |-> d, doi |-> doi,
      journal |-> None] :
        t \in {None, FeedTitle}, d \in {None, FeedDate}, doi \in {None, FeedDoi}}

MergeInit ==
    /\ PipeInit
    /\ hin \in {[page |-> p, it |-> i] : p \in MergePages, i \in MergeItems}
    /\ hout = [stage |-> "page"]

Merge ==
    /\ hout.stage = "page"
    /\ hout' = [stage |-> "merged", record |-> BuildRecord(hin.page, hin.it)]
    /\ UNCHANGED <<pipeVars, hin>>

MergeNext == Merge

SpecMerge == MergeInit /\ [][MergeNext]_vars

\* The value each layer has for a field of the record.
JsonldLayer(page) ==
    LET obj == pick_article_obj(page.jsonlds)
        f == IF obj.isdict THEN extract_from_jsonld(obj) ELSE EmptyDict
    IN  [title_en |-> get(f, "title"), doi |-> get(f, "doi"),
         pub_date |-> get(f, "date_published"), journal |-> get(f, "journal"),
         type |-> get(f, "type")]

MetaLayer(page) ==
    [title_en |-> select_meta(page, "citation_title"),
     doi      |-> select_meta(page, "citation_doi"),
     pub_date |-> select_meta(page, "citation_publication_date"),
     journal  |-> select_meta(page, "citation_journal_title"),
     type     |-> select_meta(page, "citation_article_type")]

FeedLayer(item) ==
    [title_en |-> item.title, doi |-> item.doi, pub_date |-> item.pub_date,
     journal |-> None, type |-> None]

\* C7: each of title, doi, publication date, journal and type of the record
\* is the first non-empty value of the structured-data layer, the meta-tag
\* layer and the feed's item, in that order (empty if all three are).
C7_LayeredPrecedence ==
    hout.stage = "merged" =>
        \A f \in {"title_en", "doi", "pub_date", "journal", "type"} :
            LET first == Or(JsonldLayer(hin.page)[f],
                            Or(MetaLayer(hin.page)[f], FeedLayer(hin.it)[f]))
            IN  IF Truthy(first) THEN hout.record[f] = first
                ELSE ~Truthy(hout.record[f])

(***************************************************************************)
(* upsert_article as a function: two calls, the second not earlier than    *)
(* the first on the clock now_ts reads (one-second resolution), on a table *)
(* that starts empty.                                                      *)
(***************************************************************************)
MaxUpsertClock == 2

UpsertPages ==
    {PageJsonld,
     Page(<<>>, NoMeta),
     Page(<<JsonldObj(<<"A", "r", "t", "i", "c", "l", "e">>, JsonTitle, None, <<JsonIdent>>)>>,
          NoMeta)}

UpsertItem ==
    [title |-> FeedTitle, link |-> Link1, id_like |-> Link1, pub_date |-> FeedDate,
     doi |-> None, journal |-> None]

UpsertUids == {compute_uid(UpsertItem), compute_uid([UpsertItem EXCEPT !.doi = DoiUpper])}

UpsertInit ==
    /\ PipeInit
    /\ hin \in {[uid1 |-> u1, uid2 |-> u2, feed1 |-> f1, feed2 |-> f2,
                  page1 |-> p1, page2 |-> p2, t1 |-> t1, t2 |-> t2] :
                    u1 \in UpsertUids, u2 \in UpsertUids,
                    f1 \in Range(Feeds), f2 \in Range(Feeds),
                    p1 \in UpsertPages, p2 \in UpsertPages,
                    t1 \in 0..MaxUpsertClock, t2 \in 0..MaxUpsertClock}
    /\ hin.t1 <= hin.t2
    /\ hout = [stage |-> "none", first |-> EmptyTable, table |-> EmptyTable]

\* upsert_article(conn, uid1, feed1, record of page1, its article object)
UpsertFirst ==
    /\ hout.stage = "none"
    /\ \E tbl \in {upsert_article(EmptyTable, hin.uid1, hin.feed1,
                                   BuildRecord(hin.page1, UpsertItem),
                                   pick_article_obj(hin.page1.jsonlds), hin.t1)} :
         hout' = [stage |-> "one", first |-> tbl, table |-> tbl]
    /\ UNCHANGED <<pipeVars, hin>>

\* upsert_article(conn, uid2, feed2, record of page2, its article object)
UpsertSecond ==
    /\ hout.stage = "one"
    /\ hout' = [stage |-> "two", first |-> hout.first,
                table |-> upsert_article(hout.table, hin.uid2, hin.feed2,
                                         BuildRecord(hin.page2, UpsertItem),
                                         pick_article_obj(hin.page2.jsonlds), hin.t2)]
    /\ UNCHANGED <<pipeVars, hin>>

UpsertNext == UpsertFirst \/ UpsertSecond

SpecUpsert == UpsertInit /\ [][UpsertNext]_vars

\* The columns of articles that come from the extracted record.
ExtractedFields ==
    {"journal", "title_en", "title_cn", "type", "pub_date", "doi", "article_url",
     "abstract_en", "abstract_cn"}

\* C12: after two upserts the table has one row for each uid given; when both
\* calls were for one uid, with different field values, the row holds every
\* extracted field and the raw structured data of the second call, its
\* fetched_at is the one of the first call and its last_updated_at is later
\* than the one the first call wrote.
C12_UpsertOverwrites ==
    hout.stage = "two" =>
        /\ DOMAIN hout.table = {hin.uid1, hin.uid2}
        /\ (/\ hin.uid1 = hin.uid2
            /\ hin.page1 # hin.page2) =>
               LET row == hout.table[hin.uid2]
                   record == BuildRecord(hin.page2, UpsertItem)
               IN  /\ \A f \in ExtractedFields : row[f] = record[f]
                   /\ row.raw_jsonld = pick_article_obj(hin.page2.jsonlds)
                   /\ row.fetched_at = hout.first[hin.uid1].fetched_at
                   /\ row.last_updated_at > hout.first[hin.uid1].last_updated_at

(***************************************************************************)
(* Resumption after an interruption.  The environment is the one the       *)
(* pipeline is written for: the content of each feed stays the same, the   *)
(* server answers 304 exactly when the request carries the validator of    *)
(* that content, feed fetches and page extractions do not fail, runs keep  *)
(* occurring and only the first MaxRuns - 1 of them may be interrupted.    *)
(* A run that has started goes on (weak fairness of its steps):            *)
(* run_pipeline is sequential and every call it blocks on returns or       *)
(* times out.                                                              *)
(***************************************************************************)
ContentOf(url) == IF url = FeedA THEN BodyRss2 ELSE BodyAtom

\* The server's answer to If-None-Match / If-Modified-Since of fetch_feed.
ValidatorMatches ==
    \/ Truthy(StoredEtag) /\ StoredEtag = HeadersOf(ContentOf(feed_url)).etag
    \/ Truthy(StoredLastMod) /\ StoredLastMod = HeadersOf(ContentOf(feed_url)).last_modified

ResumeFeedNotModified == AtFeed /\ ValidatorMatches /\ FeedNotModified

ResumeFeedFetched ==
    /\ AtFeed
    /\ ~ValidatorMatches
    /\ FeedFetched
    /\ items' = parse_feed(ContentOf(feed_url))
    /\ feeds'[feed_url].etag = HeadersOf(ContentOf(feed_url)).etag

ResumeInterrupt == run < MaxRuns /\ Interrupt

\* Runs keep occurring: past MaxRuns they are no longer counted.
ResumeStartRun == BeginRun(IF run < MaxRuns THEN run + 1 ELSE run)

\* The steps that hold no text processing, and the two that do.
ResumeLightStep ==
    \/ ResumeStartRun
    \/ ResumeFeedNotModified
    \/ ArticleFetchFails
    \/ MarkSeen
    \/ WriteReport
    \/ FinishRun

ResumeHeavyStep ==
    \/ ResumeFeedFetched
    \/ ArticleFetched

\* ENABLED <<ResumeHeavyStep>>_vars, from the guards of its two actions.
ResumeHeavyEnabled ==
    \/ AtFeed /\ ~ValidatorMatches
    \/ AtItem /\ Truthy(it.link)

ResumeNext ==
    \/ Tick
    \/ ResumeLightStep
    \/ ResumeHeavyStep
    \/ ResumeInterrupt

\* Weak fairness of the steps of a run; for ResumeHeavyStep it is written
\* with the guard in the place of ENABLED.
SpecResume ==
    /\ Init
    /\ [][ResumeNext]_vars
    /\ WF_vars(ResumeLightStep)
    /\ ([]<>(~ResumeHeavyEnabled) \/ []<><<ResumeHeavyStep>>_vars)

\* The items of the feeds' contents, as (feed index, item index).
ContentItems ==
    {<<f, i>> : f \in DOMAIN Feeds, i \in 1..2} \cap
    {x \in (DOMAIN Feeds) \X (1..2) : x[2] <= Len(parse_feed(ContentOf(Feeds[x[1]])))}

ContentUid(x) == compute_uid(parse_feed(ContentOf(Feeds[x[1]]))[x[2]])

\* C13: when a run has been interrupted after the body of a feed was fetched
\* (the feed has its row in feeds) and an item of that body is not marked
\* seen, a later run marks it seen.
C13_NoItemLost ==
    \A x \in ContentItems :
        (/\ pc = "idle"
         /\ outcome = "interrupted"
         /\ Feeds[x[1]] \in DOMAIN feeds
         /\ ContentUid(x) \notin DOMAIN seen)
        ~> (ContentUid(x) \in DOMAIN seen)

====
